---------------------------- MODULE Spec2Model ----------------------------
(***************************************************************************)
(* A model of tools/pre-push-check.py, the ICE-WEBAPP pre-push quality     *)
(* gate: bypass check, test run, coverage ingestion, four threshold        *)
(* checks, best-effort coverage upload, final exit code.                   *)
(*                                                                         *)
(* The script is one sequential procedure.  Each action below is one       *)
(* statement group of the script; pc is the position of the interpreter.   *)
(* What the script reads from outside (the environment, the exit status of *)
(* the child processes, the files on disk) is drawn nondeterministically   *)
(* at the statement that reads it.  DEBUG (line 9) is False, so the        *)
(* blocks under "if DEBUG" do not run and are not modelled.                *)
(***************************************************************************)
EXTENDS Integers, Sequences

(***************************************************************************)
(* Python values.  A scalar is a record                                    *)
(*   [t: type name, k: float kind, n, d: the number n / 10^d,              *)
(*    big: an int too large for a double, s: the characters of a str].     *)
(* A dict is [t |-> "dict", m |-> a function from its keys to values].     *)
(* A str is the sequence of its characters, so that float() can parse it.  *)
(***************************************************************************)
PyVal(t, k, n, d, big, s) ==
    [t |-> t, k |-> k, n |-> n, d |-> d, big |-> big, s |-> s]

PyNone == PyVal("NoneType", "fin", 0, 0, FALSE, <<>>)

PyBool(b) == PyVal("bool", "fin", IF b THEN 1 ELSE 0, 0, FALSE, <<>>)

PyInt(n) == PyVal("int", "fin", n, 0, FALSE, <<>>)

\* An int whose magnitude exceeds the largest double (JSON allows any number of digits).
PyBigInt == PyVal("int", "fin", 1, 0, TRUE, <<>>)

PyFloat(n, d) == PyVal("float", "fin", n, d, FALSE, <<>>)

PyNaN == PyVal("float", "nan", 0, 0, FALSE, <<>>)

PyInf == PyVal("float", "inf", 0, 0, FALSE, <<>>)

PyNegInf == PyVal("float", "ninf", 0, 0, FALSE, <<>>)

PyStr(s) == PyVal("str", "fin", 0, 0, FALSE, s)

PyList == PyVal("list", "fin", 0, 0, FALSE, <<>>)

PyDict(m) == [t |-> "dict", m |-> m]

EmptyDict == PyDict([x \in {} |-> PyNone])

\* Python ==, for the comparisons the script makes (a value against a str literal).
PyEq(a, b) == a.t = b.t /\ a.t # "dict" /\ a = b

(***************************************************************************)
(* Results of an evaluation that may raise: exc is the exception's class   *)
(* name, "" when the evaluation returned val.                              *)
(***************************************************************************)
Ok(v) == [exc |-> "", val |-> v]

Raise(x) == [exc |-> x, val |-> PyNone]

(***************************************************************************)
(* float(str): the characters are parsed as Python parses them: optional   *)
(* surrounding whitespace, an optional sign, then nan, inf or infinity in  *)
(* any case, or a decimal with optional fraction and exponent, digits      *)
(* optionally grouped by single underscores.                               *)
(***************************************************************************)
DigitChars == {"0", "1", "2", "3", "4", "5", "6", "7", "8", "9"}

DigitVal(c) ==
    CASE c = "0" -> 0 [] c = "1" -> 1 [] c = "2" -> 2 [] c = "3" -> 3
      [] c = "4" -> 4 [] c = "5" -> 5 [] c = "6" -> 6 [] c = "7" -> 7
      [] c = "8" -> 8 [] c = "9" -> 9

IsDigit(c) == c \in DigitChars

IsSpace(c) == c \in {" ", "\t", "\n", "\r"}

LowerChar(c) ==
    CASE c = "A" -> "a" [] c = "E" -> "e" [] c = "F" -> "f" [] c = "I" -> "i"
      [] c = "N" -> "n" [] c = "T" -> "t" [] c = "Y" -> "y" [] OTHER -> c

Lower(s) == [i \in 1..Len(s) |-> LowerChar(s[i])]

RECURSIVE LStrip(_)
LStrip(s) == IF s # <<>> /\ IsSpace(Head(s)) THEN LStrip(Tail(s)) ELSE s

RECURSIVE RStrip(_)
RStrip(s) ==
    IF s # <<>> /\ IsSpace(s[Len(s)]) THEN RStrip(SubSeq(s, 1, Len(s) - 1)) ELSE s

Strip(s) == RStrip(LStrip(s))

\* The first position of character c in s, 0 when there is none.
IndexOf(s, c) ==
    LET hits == {i \in 1..Len(s) : s[i] = c}
    IN  IF hits = {} THEN 0 ELSE CHOOSE i \in hits : \A j \in hits : i <= j

\* A non-empty run of digits, single underscores allowed between two digits.
DigitsOK(r) ==
    /\ r # <<>>
    /\ \A i \in 1..Len(r) :
          \/ IsDigit(r[i])
          \/ /\ r[i] = "_"
             /\ i > 1 /\ i < Len(r)
             /\ IsDigit(r[i - 1]) /\ IsDigit(r[i + 1])

DigitsOnly(r) == SelectSeq(r, IsDigit)

RECURSIVE DigitsValue(_)
DigitsValue(r) ==
    IF r = <<>> THEN 0
    ELSE 10 * DigitsValue(SubSeq(r, 1, Len(r) - 1)) + DigitVal(r[Len(r)])

RECURSIVE Pow10(_)
Pow10(k) == IF k <= 0 THEN 1 ELSE 10 * Pow10(k - 1)

\* The canonical record of the number n / 10^d (equal numbers, equal records).
RECURSIVE Finite(_, _)
Finite(n, d) ==
    IF d < 0 THEN Finite(n * Pow10(-d), 0)
    ELSE IF d > 0 /\ n % 10 = 0 THEN Finite(n \div 10, d - 1)
    ELSE PyFloat(n, d)

Chars_nan == <<"n", "a", "n">>

Chars_inf == <<"i", "n", "f">>

Chars_infinity == <<"i", "n", "f", "i", "n", "i", "t", "y">>

ParseFloat(s) ==
    LET t      == Strip(s)
        signed == t # <<>> /\ t[1] \in {"+", "-"}
        neg    == signed /\ t[1] = "-"
        low    == Lower(IF signed THEN Tail(t) ELSE t)
        ei     == IndexOf(low, "e")
        mant   == IF ei = 0 THEN low ELSE SubSeq(low, 1, ei - 1)
        expo   == IF ei = 0 THEN <<>> ELSE SubSeq(low, ei + 1, Len(low))
        esign  == expo # <<>> /\ expo[1] \in {"+", "-"}
        eneg   == esign /\ expo[1] = "-"
        edig   == IF esign THEN Tail(expo) ELSE expo
        pi     == IndexOf(mant, ".")
        ip     == IF pi = 0 THEN mant ELSE SubSeq(mant, 1, pi - 1)
        fp     == IF pi = 0 THEN <<>> ELSE SubSeq(mant, pi + 1, Len(mant))
        wellformed ==
            /\ ip # <<>> \/ fp # <<>>
            /\ ip = <<>> \/ DigitsOK(ip)
            /\ fp = <<>> \/ DigitsOK(fp)
            /\ ei = 0 \/ DigitsOK(edig)
        mag    == DigitsValue(DigitsOnly(ip) \o DigitsOnly(fp))
        ex     == IF eneg THEN -DigitsValue(DigitsOnly(edig))
                  ELSE DigitsValue(DigitsOnly(edig))
    IN  IF low = Chars_nan THEN Ok(PyNaN)
        ELSE IF low = Chars_inf \/ low = Chars_infinity
             THEN Ok(IF neg THEN PyNegInf ELSE PyInf)
        ELSE IF wellformed
             THEN Ok(Finite(IF neg THEN -mag ELSE mag, Len(DigitsOnly(fp)) - ex))
        ELSE Raise("ValueError")

(***************************************************************************)
(* float(value), the builtin, for each type json.load can produce.         *)
(***************************************************************************)
Float(value) ==
    CASE value.t = "float" -> Ok(value)
      [] value.t = "int"   -> IF value.big THEN Raise("OverflowError")
                              ELSE Ok(Finite(value.n, 0))
      [] value.t = "bool"  -> Ok(Finite(value.n, 0))
      [] value.t = "str"   -> ParseFloat(value.s)
      [] OTHER             -> Raise("TypeError")

(***************************************************************************)
(* safe_float, lines 66-72.  ValueError and TypeError are turned into the  *)
(* default; any other exception leaves the function.                       *)
(***************************************************************************)
Chars_Unknown == <<"U", "n", "k", "n", "o", "w", "n">>

Float0 == Finite(0, 0)

safe_float(value, default) ==
    IF PyEq(value, PyStr(Chars_Unknown)) THEN Ok(default)
    ELSE LET r == Float(value)
         IN  IF r.exc \in {"ValueError", "TypeError"} THEN Ok(default) ELSE r

(***************************************************************************)
(* obj.get(key, default): an AttributeError when obj is not a dict.        *)
(***************************************************************************)
Get(obj, key, default) ==
    IF obj.t # "dict" THEN Raise("AttributeError")
    ELSE IF key \in DOMAIN obj.m THEN Ok(obj.m[key])
    ELSE Ok(default)

\* total_coverage.get(metric, {}).get('pct'), lines 56-59.
GetPct(total_coverage, metric) ==
    LET entry == Get(total_coverage, metric, EmptyDict)
    IN  IF entry.exc # "" THEN entry ELSE Get(entry.val, "pct", PyNone)

(***************************************************************************)
(* Thresholds, lines 34-37, and the comparison value < THRESHOLD of a      *)
(* float with an int: every comparison with nan is false.                  *)
(***************************************************************************)
LINES_THRESHOLD == 70

STATEMENTS_THRESHOLD == 70

FUNCTIONS_THRESHOLD == 65

BRANCHES_THRESHOLD == 60

Lt(x, threshold) ==
    CASE x.k = "nan"  -> FALSE
      [] x.k = "inf"  -> FALSE
      [] x.k = "ninf" -> TRUE
      [] OTHER        -> x.n < threshold * Pow10(x.d)

(***************************************************************************)
(* Bounds of the model.                                                    *)
(***************************************************************************)
\* Integer percentages are drawn from threshold - Margin up to the threshold.
Margin == 1

(***************************************************************************)
(* The state of one run of the script.                                     *)
(***************************************************************************)
VARIABLES
    pc,              \* the statement the interpreter is at
    environ,         \* os.environ, restricted to the two bypass variables
    tests,           \* the outcome of the test-runner child process
    summary_exists,  \* what os.path.exists said of coverage-summary.json
    summary_opened,  \* whether open() was called on coverage-summary.json
    summary_kind,    \* what open() and json.load found there (see Ingest)
    e,               \* the exception caught at line 84, "" when none
    lines_cov, statements_cov, functions_cov, branches_cov,
    checks_passed,   \* "unassigned", "True" or "False"
    lcov_exists,     \* what os.path.exists said of lcov.info
    upload,          \* the outcome of the uploader child process
    output,          \* the lines printed so far
    exit_code        \* the argument of sys.exit, -1 while the script runs

vars == <<pc, environ, tests, summary_exists, summary_opened, summary_kind, e,
          lines_cov, statements_cov, functions_cov, branches_cov,
          checks_passed, lcov_exists, upload, output, exit_code>>

cov_vars == <<lines_cov, statements_cov, functions_cov, branches_cov>>

(***************************************************************************)
(* The environment: each bypass variable is unset or holds one of these.   *)
(***************************************************************************)
EnvNames == {"SKIP_HOOKS", "SKIP_PRE_PUSH"}

Chars_1 == <<"1">>

EnvStrings == {Chars_1, <<"t", "r", "u", "e">>, <<"y", "e", "s">>, <<"0">>}

Environments == UNION {[D -> EnvStrings] : D \in SUBSET EnvNames}

\* os.environ.get(name): None when the variable is unset.
EnvGet(env, name) == IF name \in DOMAIN env THEN PyStr(env[name]) ELSE PyNone

\* Line 12 as a truthiness test (any value of either variable skips), which
\* C2 tells apart from the comparison with "1".
SkipRequested_AnyValue(env) == \E name \in EnvNames : name \in DOMAIN env

\* The condition of line 12.
SkipRequested(env) ==
    \/ PyEq(EnvGet(env, "SKIP_HOOKS"), PyStr(Chars_1))
    \/ PyEq(EnvGet(env, "SKIP_PRE_PUSH"), PyStr(Chars_1))

(***************************************************************************)
(* The printed lines.  A line is identified by id; glyph is its indicator, *)
(* no_verify and skip_env say whether its text names the bypass            *)
(* "git push --no-verify" and the bypass "SKIP_PRE_PUSH=1"; a metric line  *)
(* carries the metric, the value and the threshold it prints.              *)
(***************************************************************************)
Msg(id, glyph, no_verify, skip_env) ==
    [id |-> id, glyph |-> glyph, no_verify |-> no_verify, skip_env |-> skip_env,
     metric |-> "", val |-> PyNone, thr |-> 0]

MsgSkipping == Msg("skipping", "ice", FALSE, TRUE)

MsgRunning == Msg("running_gates", "ice", FALSE, FALSE)

MsgRunningTests == Msg("running_tests", "", FALSE, FALSE)

MsgTestsFailed == Msg("tests_failed", "cross", TRUE, FALSE)

MsgOrSetSkip == Msg("or_set_skip_pre_push", "", FALSE, TRUE)

MsgErrorRunningTests == Msg("error_running_tests", "cross", FALSE, FALSE)

MsgChecking == Msg("checking_thresholds", "", FALSE, FALSE)

MsgErrorParsing == Msg("error_parsing", "warn", FALSE, FALSE)

MsgContinue == Msg("continue_minimal", "", FALSE, FALSE)

MsgNoSummary == Msg("no_summary", "warn", FALSE, FALSE)

MsgMetric(metric, failed, val, thr) ==
    [id |-> "metric", glyph |-> IF failed THEN "cross" ELSE "check",
     no_verify |-> FALSE, skip_env |-> FALSE,
     metric |-> metric, val |-> val, thr |-> thr]

MsgUploading == Msg("uploading", "", FALSE, FALSE)

MsgUploadFailed == Msg("upload_failed", "warn", FALSE, FALSE)

MsgUploadError == Msg("upload_error", "warn", FALSE, FALSE)

MsgNoLcov == Msg("no_lcov", "warn", FALSE, FALSE)

MsgNotMet == Msg("thresholds_not_met", "cross", FALSE, FALSE)

MsgFixCoverage == Msg("fix_coverage", "", TRUE, FALSE)

MsgAllMet == Msg("thresholds_met", "check", FALSE, FALSE)

MsgPassed == Msg("gates_passed", "ice", FALSE, FALSE)

\* print(...), once per element of msgs.
Prints(msgs) == output' = output \o msgs

(***************************************************************************)
(* The contents coverage-summary.json may have.                            *)
(***************************************************************************)
Chars_garbage == <<"g", "a", "r", "b", "a", "g", "e">>

\* The raw "pct" values of a metric with threshold thr.
RawPct(thr) ==
    {PyInt(i) : i \in (thr - Margin)..thr}
    \cup {PyFloat(10 * thr - 5, 1), PyNaN, PyBigInt, PyNone,
          PyStr(Chars_Unknown), PyStr(Chars_garbage), PyStr(Chars_nan)}

\* A metric's entry under "total": absent, not a mapping, a mapping without
\* "pct", or a mapping with "pct".
Entries(thr) ==
    {[shape |-> sh, pct |-> PyNone] : sh \in {"missing", "nondict", "nopct"}}
    \cup {[shape |-> "pct", pct |-> v] : v \in RawPct(thr)}

EntryValue(entry) ==
    CASE entry.shape = "nondict" -> PyInt(0)
      [] entry.shape = "nopct"   -> PyDict([k \in {"covered"} |-> PyInt(0)])
      [] entry.shape = "pct"     -> PyDict([k \in {"pct"} |-> entry.pct])

MetricNames == <<"lines", "statements", "functions", "branches">>

\* The document {"total": {metric: entry, ...}} of four entries.
Document(entries) ==
    LET present == {i \in 1..4 : entries[i].shape # "missing"}
        total   == [k \in {MetricNames[i] : i \in present} |->
                      EntryValue(entries[CHOOSE i \in present : MetricNames[i] = k])]
    IN  PyDict([k \in {"total"} |-> PyDict(total)])

\* Documents that parse as JSON without the expected structure: a list at the
\* top, no "total", a null "total", a "total" that is a number.
MalformedDocuments ==
    << PyList,
       EmptyDict,
       PyDict([k \in {"total"} |-> PyNone]),
       PyDict([k \in {"total"} |-> PyInt(0)]) >>

(***************************************************************************)
(* Lines 50-87 on a parsed document: the four "pct" values are extracted,  *)
(* then converted; the first exception ends the try block and line 87      *)
(* sets all four metrics to the int 0.                                     *)
(***************************************************************************)
FirstExc(results) ==
    LET bad == {i \in 1..Len(results) : results[i].exc # ""}
    IN  IF bad = {} THEN ""
        ELSE results[CHOOSE i \in bad : \A j \in bad : i <= j].exc

\* The handler assigning a passing default instead of 0, which C5 tells apart.
Zeroed_FailsOpen(exc) == [e |-> exc, cov |-> [i \in 1..4 |-> PyInt(100)]]

\* Lines 84-87 (and line 91): the handler's assignment.
Zeroed(exc) == [e |-> exc, cov |-> [i \in 1..4 |-> PyInt(0)]]

ReadCoverage(coverage_data) ==
    LET total_coverage == Get(coverage_data, "total", EmptyDict)
    IN  IF total_coverage.exc # "" THEN Zeroed(total_coverage.exc)
        ELSE LET pcts == [i \in 1..4 |-> GetPct(total_coverage.val, MetricNames[i])]
             IN  IF FirstExc(pcts) # "" THEN Zeroed(FirstExc(pcts))
                 ELSE LET covs == [i \in 1..4 |-> safe_float(pcts[i].val, Float0)]
                      IN  IF FirstExc(covs) # "" THEN Zeroed(FirstExc(covs))
                          ELSE [e |-> "", cov |-> [i \in 1..4 |-> covs[i].val]]

(***************************************************************************)
(* Init: the script has not started; the environment is whatever the       *)
(* caller set.                                                             *)
(***************************************************************************)
Unassigned == PyVal("unassigned", "fin", 0, 0, FALSE, <<>>)

Init ==
    /\ pc = "bypass"
    /\ environ \in Environments
    /\ tests = "not_run"
    /\ summary_exists = "unchecked"
    /\ summary_opened = FALSE
    /\ summary_kind = "unread"
    /\ e = ""
    /\ lines_cov = Unassigned
    /\ statements_cov = Unassigned
    /\ functions_cov = Unassigned
    /\ branches_cov = Unassigned
    /\ checks_passed = "unassigned"
    /\ lcov_exists = "unchecked"
    /\ upload = "not_run"
    /\ output = <<>>
    /\ exit_code = -1

\* sys.exit(code)
Exit(code) == pc' = "done" /\ exit_code' = code

(***************************************************************************)
(* Lines 12-16: the bypass check.                                          *)
(***************************************************************************)
BypassCheck ==
    /\ pc = "bypass"
    /\ IF SkipRequested(environ)
       THEN Prints(<<MsgSkipping>>) /\ Exit(0)
       ELSE Prints(<<MsgRunning>>) /\ pc' = "tests" /\ UNCHANGED exit_code
    /\ UNCHANGED <<environ, tests, summary_exists, summary_opened, summary_kind, e,
                   cov_vars,
                   checks_passed, lcov_exists, upload>>

(***************************************************************************)
(* Lines 19-31: the test run.  The child exits 0, exits nonzero, or        *)
(* subprocess.run raises (the command cannot be launched).                 *)
(***************************************************************************)
ChildOutcomes == {"exit_0", "exit_nonzero", "launch_failed"}

TestsFailed == Prints(<<MsgRunningTests, MsgTestsFailed, MsgOrSetSkip>>) /\ Exit(1)

\* Lines 26-28 without the sys.exit(1), which C3 tells apart: the script
\* would go on to the coverage files after a launch failure.
TestsNotLaunched_GoesOn ==
    /\ Prints(<<MsgRunningTests, MsgErrorRunningTests, MsgChecking>>)
    /\ pc' = "summary"
    /\ UNCHANGED exit_code

TestsNotLaunched == Prints(<<MsgRunningTests, MsgErrorRunningTests>>) /\ Exit(1)

RunTests ==
    /\ pc = "tests"
    /\ \E outcome \in ChildOutcomes :
          /\ tests' = outcome
          /\ CASE outcome = "exit_nonzero"  -> TestsFailed
               [] outcome = "launch_failed" -> TestsNotLaunched
               [] outcome = "exit_0" ->
                     /\ Prints(<<MsgRunningTests, MsgChecking>>)
                     /\ pc' = "summary"
                     /\ UNCHANGED exit_code
    /\ UNCHANGED <<environ, summary_exists, summary_opened, summary_kind, e,
                   cov_vars,
                   checks_passed, lcov_exists, upload>>

(***************************************************************************)
(* Lines 40 and 88-91: does coverage-summary.json exist?                   *)
(***************************************************************************)
SetCoverage(r) ==
    /\ e' = r.e
    /\ lines_cov' = r.cov[1]
    /\ statements_cov' = r.cov[2]
    /\ functions_cov' = r.cov[3]
    /\ branches_cov' = r.cov[4]

CheckSummary ==
    /\ pc = "summary"
    /\ \E exists \in BOOLEAN :
          IF exists
          THEN /\ summary_exists' = "yes"
               /\ pc' = "ingest"
               /\ UNCHANGED <<e, cov_vars, output>>
          ELSE /\ summary_exists' = "no"
               /\ Prints(<<MsgNoSummary, MsgContinue>>)
               /\ SetCoverage(Zeroed(""))
               /\ pc' = "start_checks"
    /\ UNCHANGED <<environ, tests, summary_opened, summary_kind, checks_passed, lcov_exists,
                   upload, exit_code>>

(***************************************************************************)
(* Lines 41-87: open, json.load, extraction and conversion, in one try.    *)
(* open() may raise (the file vanished or cannot be read), json.load may   *)
(* raise on text that is not JSON, or the text parses to a document.       *)
(* summary_kind records which it was: "unreadable", "invalid_json",        *)
(* "not_mapping" (the top level, "total" or a metric's entry is not a      *)
(* mapping), "no_total" or "well_formed" (every level present is a         *)
(* mapping).                                                               *)
(***************************************************************************)
Ingested(r) ==
    /\ SetCoverage(r)
    /\ IF r.e # "" THEN Prints(<<MsgErrorParsing, MsgContinue>>)
       ELSE UNCHANGED output

Ingest ==
    /\ pc = "ingest"
    /\ summary_opened' = TRUE
    /\ \/ /\ Ingested(Zeroed("OSError"))
          /\ summary_kind' = "unreadable"
       \/ /\ Ingested(Zeroed("JSONDecodeError"))
          /\ summary_kind' = "invalid_json"
       \/ \E i \in 1..Len(MalformedDocuments) :
             /\ Ingested(ReadCoverage(MalformedDocuments[i]))
             /\ summary_kind' = IF i = 2 THEN "no_total" ELSE "not_mapping"
       \/ \E l \in Entries(LINES_THRESHOLD), s \in Entries(STATEMENTS_THRESHOLD),
             f \in Entries(FUNCTIONS_THRESHOLD), b \in Entries(BRANCHES_THRESHOLD) :
             /\ Ingested(ReadCoverage(Document(<<l, s, f, b>>)))
             /\ summary_kind' = IF "nondict" \in {l.shape, s.shape, f.shape, b.shape}
                                THEN "not_mapping" ELSE "well_formed"
    /\ pc' = "start_checks"
    /\ UNCHANGED <<environ, tests, summary_exists, checks_passed, lcov_exists,
                   upload, exit_code>>

(***************************************************************************)
(* Line 94: checks_passed = True.                                          *)
(***************************************************************************)
StartChecks ==
    /\ pc = "start_checks"
    /\ checks_passed' = "True"
    /\ pc' = "check_lines"
    /\ UNCHANGED <<environ, tests, summary_exists, summary_opened, summary_kind, e,
                   cov_vars,
                   lcov_exists, upload, output, exit_code>>

(***************************************************************************)
(* Lines 97-122: the four threshold checks, one if/else each.              *)
(***************************************************************************)
\* A check whose else branch sets the flag back to true, which C9 tells apart.
CheckMetric_ResetsFlag(at, metric, cov, threshold, next) ==
    /\ pc = at
    /\ IF Lt(cov, threshold)
       THEN /\ Prints(<<MsgMetric(metric, TRUE, cov, threshold)>>)
            /\ checks_passed' = "False"
       ELSE /\ Prints(<<MsgMetric(metric, FALSE, cov, threshold)>>)
            /\ checks_passed' = "True"
    /\ pc' = next
    /\ UNCHANGED <<environ, tests, summary_exists, summary_opened, summary_kind, e,
                   cov_vars, lcov_exists, upload, exit_code>>

CheckMetric(at, metric, cov, threshold, next) ==
    /\ pc = at
    /\ IF Lt(cov, threshold)
       THEN /\ Prints(<<MsgMetric(metric, TRUE, cov, threshold)>>)
            /\ checks_passed' = "False"
       ELSE /\ Prints(<<MsgMetric(metric, FALSE, cov, threshold)>>)
            /\ UNCHANGED checks_passed
    /\ pc' = next
    /\ UNCHANGED <<environ, tests, summary_exists, summary_opened, summary_kind, e,
                   cov_vars,
                   lcov_exists, upload, exit_code>>

CheckLines ==
    CheckMetric("check_lines", "lines", lines_cov, LINES_THRESHOLD,
                "check_statements")

CheckStatements ==
    CheckMetric("check_statements", "statements", statements_cov,
                STATEMENTS_THRESHOLD, "check_functions")

CheckFunctions ==
    CheckMetric("check_functions", "functions", functions_cov,
                FUNCTIONS_THRESHOLD, "check_branches")

CheckBranches ==
    CheckMetric("check_branches", "branches", branches_cov, BRANCHES_THRESHOLD,
                "lcov")

(***************************************************************************)
(* Lines 125-126 and 136-137: does lcov.info exist?                        *)
(***************************************************************************)
\* The upload stage skipped when a check failed, which C10 tells apart.
CheckLcov_SkippedOnFailure ==
    /\ pc = "lcov"
    /\ IF checks_passed = "False"
       THEN pc' = "final" /\ UNCHANGED <<lcov_exists, output>>
       ELSE \E exists \in BOOLEAN :
               IF exists
               THEN /\ lcov_exists' = "yes"
                    /\ Prints(<<MsgUploading>>)
                    /\ pc' = "upload"
               ELSE /\ lcov_exists' = "no"
                    /\ Prints(<<MsgUploading, MsgNoLcov>>)
                    /\ pc' = "final"
    /\ UNCHANGED <<environ, tests, summary_exists, summary_opened, summary_kind, e,
                   cov_vars, checks_passed, upload, exit_code>>

CheckLcov ==
    /\ pc = "lcov"
    /\ \E exists \in BOOLEAN :
          IF exists
          THEN /\ lcov_exists' = "yes"
               /\ Prints(<<MsgUploading>>)
               /\ pc' = "upload"
          ELSE /\ lcov_exists' = "no"
               /\ Prints(<<MsgUploading, MsgNoLcov>>)
               /\ pc' = "final"
    /\ UNCHANGED <<environ, tests, summary_exists, summary_opened, summary_kind, e,
                   cov_vars,
                   checks_passed, upload, exit_code>>

(***************************************************************************)
(* Lines 127-135: the uploader child process; every failure is a warning.  *)
(***************************************************************************)
UploadWarning(outcome) ==
    CASE outcome = "exit_nonzero"  -> <<MsgUploadFailed>>
      [] outcome = "launch_failed" -> <<MsgUploadError>>
      [] outcome = "exit_0"        -> <<>>

\* An uploader failure clearing checks_passed, which C4 tells apart.
Uploaded_FailureFailsGate(outcome) ==
    /\ upload' = outcome
    /\ Prints(UploadWarning(outcome))
    /\ pc' = "final"
    /\ checks_passed' = IF outcome = "exit_0" THEN checks_passed ELSE "False"
    /\ UNCHANGED exit_code

Uploaded(outcome) ==
    /\ upload' = outcome
    /\ Prints(UploadWarning(outcome))
    /\ pc' = "final"
    /\ UNCHANGED <<checks_passed, exit_code>>

RunUpload ==
    /\ pc = "upload"
    /\ \E outcome \in ChildOutcomes : Uploaded(outcome)
    /\ UNCHANGED <<environ, tests, summary_exists, summary_opened, summary_kind, e,
                   cov_vars,
                   lcov_exists>>

(***************************************************************************)
(* Lines 140-148: the final result.                                        *)
(***************************************************************************)
ThresholdsNotMet == Prints(<<MsgNotMet, MsgFixCoverage, MsgOrSetSkip>>) /\ Exit(1)

GatesPassed == Prints(<<MsgAllMet, MsgPassed>>) /\ Exit(0)

FinalResult ==
    /\ pc = "final"
    /\ IF checks_passed # "True" THEN ThresholdsNotMet ELSE GatesPassed
    /\ UNCHANGED <<environ, tests, summary_exists, summary_opened, summary_kind, e,
                   cov_vars,
                   checks_passed, lcov_exists, upload>>

Next ==
    \/ BypassCheck
    \/ RunTests
    \/ CheckSummary
    \/ Ingest
    \/ StartChecks
    \/ CheckLines
    \/ CheckStatements
    \/ CheckFunctions
    \/ CheckBranches
    \/ CheckLcov
    \/ RunUpload
    \/ FinalResult

Spec == Init /\ [][Next]_vars

(***************************************************************************)
(* Vocabulary of the properties, stated from the inputs and outputs of the *)
(* run rather than from the operators above.                               *)
(***************************************************************************)
\* Some bypass variable is set to exactly "1".
BypassTriggered ==
    \E name \in EnvNames : name \in DOMAIN environ /\ environ[name] = <<"1">>

Thresholds == <<LINES_THRESHOLD, STATEMENTS_THRESHOLD, FUNCTIONS_THRESHOLD,
                BRANCHES_THRESHOLD>>

Coverage == <<lines_cov, statements_cov, functions_cov, branches_cov>>

\* x is a number and x >= threshold.
AtLeast(x, threshold) ==
    \/ x.k = "inf"
    \/ x.k = "fin" /\ x.n >= threshold * Pow10(x.d)

\* x is a number and x < threshold.
Below(x, threshold) ==
    \/ x.k = "ninf"
    \/ x.k = "fin" /\ x.n < threshold * Pow10(x.d)

IsMetricMsg(m) == m.id = "metric"

\* The metric lines printed so far, in the order printed.
Reports == SelectSeq(output, IsMetricMsg)

ReportedMetrics == [i \in 1..Len(Reports) |-> Reports[i].metric]

\* How many threshold checks are behind the interpreter at pc.
ChecksDone ==
    CASE pc \in {"bypass", "tests", "summary", "ingest", "start_checks",
                 "check_lines"}                 -> 0
      [] pc = "check_statements"                -> 1
      [] pc = "check_functions"                 -> 2
      [] pc = "check_branches"                  -> 3
      [] pc \in {"lcov", "upload", "final"}     -> 4
      [] pc = "done" -> IF checks_passed = "unassigned" THEN 0 ELSE 4

UploadFailed == upload \in {"exit_nonzero", "launch_failed"}

Printed(m) == \E i \in 1..Len(output) : output[i] = m

(***************************************************************************)
(* C1.  Whatever the inputs, the run ends with exit code 0 or 1, and the   *)
(* code is 0 exactly when the bypass triggered or the tests passed and     *)
(* each of the four metrics is at least its threshold.                     *)
(* Violated: a metric that is nan is not at least its threshold, and the   *)
(* run exits 0 (see C6).                                                   *)
(***************************************************************************)
C1_ExitCodeContract ==
    /\ exit_code \in {-1, 0, 1}
    /\ (exit_code = -1) <=> (pc # "done")
    /\ pc = "done" =>
          (exit_code = 0 <=>
              \/ BypassTriggered
              \/ /\ tests = "exit_0"
                 /\ \A i \in 1..4 : AtLeast(Coverage[i], Thresholds[i]))

(***************************************************************************)
(* C2.  When SKIP_HOOKS or SKIP_PRE_PUSH is exactly "1" the run exits 0    *)
(* and no later stage happens: no test run, no look at either coverage     *)
(* file, no upload.  With any other values the bypass does not happen and  *)
(* the test runner is invoked.                                             *)
(***************************************************************************)
C2_BypassShortCircuits ==
    /\ BypassTriggered =>
          /\ pc \in {"bypass", "done"}
          /\ pc = "done" => exit_code = 0 /\ output = <<MsgSkipping>>
          /\ tests = "not_run"
          /\ summary_exists = "unchecked" /\ ~summary_opened
          /\ checks_passed = "unassigned"
          /\ lcov_exists = "unchecked"
          /\ upload = "not_run"
    /\ ~BypassTriggered =>
          /\ pc \notin {"bypass", "tests"} => tests # "not_run"
          /\ pc # "bypass" => ~Printed(MsgSkipping)

C2_Witness ==
    /\ pc = "done" /\ exit_code = 0 /\ tests = "not_run"
    /\ "SKIP_PRE_PUSH" \in DOMAIN environ /\ environ["SKIP_PRE_PUSH"] = <<"1">>
    /\ "SKIP_HOOKS" \in DOMAIN environ /\ environ["SKIP_HOOKS"] = <<"0">>

(***************************************************************************)
(* C3.  When the bypass is not triggered and the test runner exits nonzero *)
(* or cannot be launched, the run ends at once with exit code 1: the       *)
(* coverage summary is not checked or read, no threshold is evaluated, the *)
(* LCOV file is not checked, the uploader is not invoked.                  *)
(***************************************************************************)
C3_TestFailureIsFatal ==
    tests \in {"exit_nonzero", "launch_failed"} =>
        /\ pc = "done" /\ exit_code = 1
        /\ summary_exists = "unchecked" /\ ~summary_opened
        /\ summary_kind = "unread"
        /\ checks_passed = "unassigned" /\ Reports = <<>>
        /\ \A i \in 1..4 : Coverage[i] = Unassigned
        /\ lcov_exists = "unchecked"
        /\ upload = "not_run"

C3_Witness == tests = "launch_failed" /\ pc = "done" /\ ~BypassTriggered

\* The exit code as the gate's inputs alone decide it (no lcov.info, no uploader).
ExitFromGateInputs ==
    IF BypassTriggered THEN 0
    ELSE IF tests # "exit_0" THEN 1
    ELSE IF \E i \in 1..4 : Lt(Coverage[i], Thresholds[i]) THEN 1
    ELSE 0

(***************************************************************************)
(* C4.  The upload stage has no influence on the exit code.  Two runs that *)
(* agree on the bypass variables, the test outcome and the four metrics    *)
(* end with the same code whatever lcov.info and the uploader do: stated   *)
(* as the exit code being the value of an expression that reads only the   *)
(* environment, the test outcome and the four metrics.  In particular a    *)
(* run whose four checks passed exits 0 when the uploader fails or         *)
(* lcov.info is missing.                                                   *)
(***************************************************************************)
C4_UploadNeverDecides ==
    pc = "done" =>
        /\ exit_code = ExitFromGateInputs
        /\ (/\ tests = "exit_0"
            /\ \A i \in 1..4 : Reports[i].glyph = "check"
            /\ lcov_exists = "no" \/ UploadFailed) => exit_code = 0

C4_Witness ==
    /\ pc = "done" /\ exit_code = 0
    /\ upload = "launch_failed"
    /\ Printed(MsgUploadError)

\* The summary file is absent, unreadable, not JSON, or not made of mappings.
SummaryUnusable ==
    \/ summary_exists = "no"
    \/ summary_kind \in {"unreadable", "invalid_json", "not_mapping"}

(***************************************************************************)
(* C5.  When the tests passed and coverage-summary.json is absent, cannot  *)
(* be parsed, or parses to something whose top level, "total" or a         *)
(* metric's entry is not a mapping, the run does not end at ingestion: all *)
(* four metrics are 0, whatever the other entries held, the four checks    *)
(* and the upload stage still run, and the exit code is 1.                 *)
(***************************************************************************)
C5_UnusableSummaryZeroesAll ==
    SummaryUnusable =>
        /\ \A i \in 1..4 : Coverage[i].k = "fin" /\ Coverage[i].n = 0
        /\ summary_exists = "yes" => e # "" /\ Printed(MsgErrorParsing)
        /\ summary_exists = "no" => Printed(MsgNoSummary)
        /\ pc \in {"start_checks", "check_lines", "check_statements",
                   "check_functions", "check_branches", "lcov", "upload",
                   "final", "done"}
        /\ exit_code # 0
        /\ pc = "done" =>
              /\ exit_code = 1
              /\ Len(Reports) = 4
              /\ \A i \in 1..4 : Reports[i].glyph = "cross"
              /\ lcov_exists # "unchecked"

C5_Witness ==
    /\ pc = "done" /\ exit_code = 1
    /\ summary_kind = "not_mapping" /\ e = "AttributeError"
    /\ upload = "exit_0"

(***************************************************************************)
(* C6.  Each metric is reported as passing exactly when its value is at    *)
(* least its threshold and as failing exactly when it is strictly less; a  *)
(* value equal to its threshold passes, and a run whose four metrics equal *)
(* their thresholds exits 0.                                               *)
(* Violated: a metric that is nan is reported as passing.                  *)
(***************************************************************************)
C6_PassIffAtLeastThreshold ==
    /\ \A i \in 1..Len(Reports) :
          /\ Reports[i].glyph = "check" <=> AtLeast(Reports[i].val, Reports[i].thr)
          /\ Reports[i].glyph = "cross" <=> Below(Reports[i].val, Reports[i].thr)
          /\ Reports[i].thr = Thresholds[i]
    /\ (/\ pc = "done" /\ tests = "exit_0" /\ ~BypassTriggered
        /\ \A i \in 1..4 : Coverage[i] = Finite(Thresholds[i], 0)) => exit_code = 0

(***************************************************************************)
(* C7.  safe_float never raises and always returns a number: in a summary  *)
(* whose levels are all mappings no "pct" value makes the conversion fail, *)
(* the four metrics are numbers, and a bad value zeroes its own metric     *)
(* only.                                                                   *)
(* Violated: an integer too large for a double makes float() raise         *)
(* OverflowError, which safe_float lets through; the handler at line 84    *)
(* then zeroes all four metrics.                                           *)
(***************************************************************************)
C7_SafeFloatIsTotal ==
    summary_kind \in {"well_formed", "no_total"} =>
        /\ e = ""
        /\ \A i \in 1..4 : Coverage[i].t = "float"

(***************************************************************************)
(* C8.  Every run that ends with exit code 1 has printed the error and     *)
(* both ways to bypass the gate, git push --no-verify and SKIP_PRE_PUSH=1. *)
(* Violated: when the test runner cannot be launched only the error is     *)
(* printed.                                                                *)
(***************************************************************************)
C8_FatalPrintsBothBypasses ==
    (pc = "done" /\ exit_code = 1) =>
        /\ \E i \in 1..Len(output) : output[i].glyph = "cross"
        /\ \E i \in 1..Len(output) : output[i].no_verify
        /\ \E i \in 1..Len(output) : output[i].skip_env

\* What holds of the reports and the flag in every state, and in every step.
C9_State ==
    /\ ReportedMetrics = SubSeq(MetricNames, 1, ChecksDone)
    /\ \A i \in 1..Len(Reports) : Reports[i].val = Coverage[i]
    /\ pc = "check_lines" => checks_passed = "True"
    /\ checks_passed # "unassigned" =>
          (checks_passed = "False" <=>
              \E i \in 1..ChecksDone : Lt(Coverage[i], Thresholds[i]))
    /\ (pc = "done" /\ tests = "exit_0" /\ ~BypassTriggered) => ChecksDone = 4

C9_Step ==
    /\ checks_passed = "False" => checks_passed' = "False"
    /\ Len(Reports') \in {Len(Reports), Len(Reports) + 1}
    /\ SubSeq(Reports', 1, Len(Reports)) = Reports

(***************************************************************************)
(* C9.  A run that reaches threshold evaluation compares and reports       *)
(* lines, statements, functions, branches exactly once each, in that       *)
(* order, whether or not an earlier one failed; checks_passed starts true, *)
(* never returns to true once false, and is false exactly when a metric    *)
(* checked so far was below its threshold.                                 *)
(***************************************************************************)
C9_AllFourReportedInOrder == []C9_State /\ [][C9_Step]_vars

C9_Witness ==
    /\ pc = "lcov" /\ checks_passed = "False"
    /\ Reports[1].glyph = "cross"
    /\ \A i \in 2..4 : Reports[i].glyph = "check"

\* The order of the statements, and what holds in every state and step.
Position(at) ==
    CASE at = "bypass" -> 1
      [] at = "tests" -> 2
      [] at = "summary" -> 3
      [] at = "ingest" -> 4
      [] at = "start_checks" -> 5
      [] at = "check_lines" -> 6
      [] at = "check_statements" -> 7
      [] at = "check_functions" -> 8
      [] at = "check_branches" -> 9
      [] at = "lcov" -> 10
      [] at = "upload" -> 11
      [] at = "final" -> 12
      [] at = "done" -> 13

C10_State ==
    /\ lcov_exists # "unchecked" => Len(Reports) = 4 /\ tests = "exit_0"
    /\ (pc = "done" /\ tests = "exit_0") =>
          lcov_exists # "unchecked" /\ Len(Reports) = 4
    /\ upload # "not_run" => lcov_exists = "yes"
    /\ (lcov_exists = "yes" /\ pc \in {"final", "done"}) => upload # "not_run"
    /\ pc = "upload" => upload = "not_run" /\ lcov_exists = "yes"

C10_Step ==
    /\ Position(pc') > Position(pc)
    /\ upload # "not_run" => upload' = upload
    /\ lcov_exists # "unchecked" => lcov_exists' = lcov_exists
    /\ tests # "not_run" => tests' = tests

(***************************************************************************)
(* C10.  The stages run in one order and none is revisited: bypass check,  *)
(* test run, coverage ingestion, threshold evaluation, upload, exit.  When *)
(* the tests passed the upload stage comes after the four checks and       *)
(* before the exit, also when a check failed, and the uploader is invoked  *)
(* at most once, exactly when lcov.info exists.                            *)
(***************************************************************************)
C10_StagesInOrder == []C10_State /\ [][C10_Step]_vars

C10_Witness ==
    /\ pc = "done" /\ exit_code = 1
    /\ checks_passed = "False"
    /\ upload = "exit_nonzero"

=============================================================================
